---- MODULE Spec2Model ----
(***************************************************************************)
(* RustGuard: the crypto engine and chunking codec (src/src/crypto.rs) and *)
(* the change-detection and conflict-resolution functions                  *)
(* (src/src/sync.rs), as state machines that call the library functions    *)
(* on inputs drawn from bounded sets and record what they return.          *)
(*                                                                         *)
(* AES-256-GCM is modelled symbolically: the body of a ciphertext is the   *)
(* plaintext combined with a keystream that depends on key, nonce and      *)
(* position, and the tag is the term Mac(key, nonce, body), which only the *)
(* same key, nonce and body reproduce.  thread_rng is modelled as a source *)
(* of values that do not repeat.                                           *)
(***************************************************************************)
EXTENDS Integers, Sequences, FiniteSets, TLC

\* ------------------------------------------------------------- bounds
MaxLen == 3          \* longest plaintext, in bytes
MaxEncrypts == 3     \* encrypt calls in one run

MaxTime == 1         \* latest modification time of a file
MaxFileLen == 1      \* longest content of a file on disk, in bytes
MaxLog == 2          \* tracing events in one run

MaxFiles == 2        \* file_metadata rows the server creates in one run
MaxChunks == 2       \* chunks uploaded for one file
MaxTicks == 2        \* wake-ups of one watcher thread
MaxChanges == 1      \* changes made to the watched files in one run

\* crypto.rs:14 CHUNK_SIZE (1 MiB in the source, scaled to 2 bytes)
CHUNK_SIZE == 2

Byte == {0, 1}
ByteMod == Cardinality(Byte)
\* two distinct 32-byte keys
Keys == {1, 2}
\* the values a 12-byte nonce takes: one more than the run can draw
Nonces == 0..MaxEncrypts
ByteSeqs == UNION {[1..n -> Byte] : n \in 0..MaxLen}

VARIABLES
  rngDrawn,   \* the nonces thread_rng has produced so far
  encCount,   \* number of encrypt calls made
  encNonces,  \* the nonces encrypt calls have used
  pc,         \* the caller: "idle", "elf" (in encrypt_large_file), "dlf" (in
              \* decrypt_large_file), "end" (a decryption has returned)
  enc,        \* the last encrypt call: its arguments and result
  dec,        \* the last decrypt call: its arguments and result
  elf,        \* the frame of encrypt_large_file
  dlf,        \* the frame of decrypt_large_file
  fs,         \* the filesystem: path -> file
  rc,         \* the last resolve_conflict call: its arguments and result
  traceLog,   \* the tracing events emitted
  pending,    \* the conflicts held for a later decision
  det,        \* the last detect_changes call
  detPrev,    \* the detect_changes call before it, if the files did not change since
  dbFiles,    \* the file_metadata table: its rows in insertion order
  dbChunks,   \* the file_chunks table
  dbVersions, \* the file_versions table
  resp,       \* the last HTTP response of the server, with its request
  upSession,  \* the file the last upload created and the chunk uploads answered for it
  statusSeen, \* the statuses sync_status has reported
  watched_paths, \* FileWatcher.watched_paths
  loops,      \* the threads start_watching has spawned, with their channels
  changes,    \* the changes made to files under the watched paths
  lastAdd,    \* the last add_path call: its argument and its result
  tasks,      \* the upload_file futures of the sync client
  remoteDiverged, \* the paths whose server copy changed since the last sync
  saltDrawn,  \* the salts SaltString::generate has returned
  hp,         \* the last hash_password call
  vp,         \* the last verify_password call
  st,         \* the entries under base_path of a LocalStorage
  stored,     \* per path, the bytes of its last store_file with no delete_file after it
  ls          \* the last call on the LocalStorage

cryptoVars == <<rngDrawn, encCount, encNonces, pc, enc, dec, elf, dlf>>
syncVars == <<fs, rc, traceLog, pending, det, detPrev>>
serverVars == <<dbFiles, dbChunks, dbVersions, resp, upSession, statusSeen>>
watchVars == <<watched_paths, loops, changes, lastAdd>>
clientVars == <<tasks, remoteDiverged>>
pwVars == <<saltDrawn, hp, vp>>
storageVars == <<st, stored, ls>>
vars == <<cryptoVars, syncVars, serverVars, watchVars, clientVars, pwVars, storageVars>>

\* ------------------------------------------------------------- Result<T>
Ok(v) == [ok |-> TRUE, val |-> v, err |-> "none"]
Err(e) == [ok |-> FALSE, val |-> <<>>, err |-> e]

\* ------------------------------------------------------------- AES-256-GCM
\* the keystream byte of position i under (key, nonce)
KeyStream(key, nonce, i) == (key + nonce + i) % ByteMod

CtrXor(data, key, nonce) ==
  [i \in 1..Len(data) |-> (data[i] + KeyStream(key, nonce, i)) % ByteMod]

CtrUnXor(body, key, nonce) ==
  [i \in 1..Len(body) |-> (body[i] + ByteMod - KeyStream(key, nonce, i)) % ByteMod]

\* the authentication tag: a term only the same key, nonce and body produce
Mac(key, nonce, body) == [k |-> key, n |-> nonce, b |-> body]

\* a tag no (key, nonce, body) produces: a tag with a flipped bit
GarbledTag == [k |-> 0, n |-> 0, b |-> <<>>]

\* Aes256Gcm::encrypt: ciphertext body with the tag appended
AeadEncrypt(key, nonce, data) ==
  LET body == CtrXor(data, key, nonce)
  IN  [body |-> body, tag |-> Mac(key, nonce, body)]

\* Aes256Gcm::decrypt: the plaintext, or aead::Error when the tag does not verify
AeadDecrypt(key, nonce, ct) ==
  IF ct.tag = Mac(key, nonce, ct.body)
  THEN Ok(CtrUnXor(ct.body, key, nonce))
  ELSE Err("aead::Error")

\* ------------------------------------------------------------- crypto.rs
\* generate_nonce: n is the value rng.fill writes
generate_nonce(n) ==
  /\ n \in Nonces \ rngDrawn
  /\ rngDrawn' = rngDrawn \cup {n}

\* encrypt, with a nonce kept from an earlier call instead of a new draw
encrypt_cached(data, key, n) ==
  /\ IF rngDrawn = {} THEN generate_nonce(n)
     ELSE n \in rngDrawn /\ UNCHANGED rngDrawn
  /\ encCount' = encCount + 1
  /\ encNonces' = encNonces \cup {n}

\* encrypt: the state it changes; n is the nonce its generate_nonce call returns
encrypt(data, key, n) ==
  /\ generate_nonce(n)
  /\ encCount' = encCount + 1
  /\ encNonces' = encNonces \cup {n}

\* a nonce other than n
OtherNonce(n) == CHOOSE m \in Nonces : m # n

\* encrypt's value, with a nonce other than the one the cipher was given
encrypt_result_other_nonce(data, key, n) ==
  [ct |-> AeadEncrypt(key, n, data), nonce |-> OtherNonce(n)]

\* encrypt: the (ciphertext, nonce) pair it returns
encrypt_result(data, key, n) ==
  [ct |-> AeadEncrypt(key, n, data), nonce |-> n]

\* decrypt that skips the tag check
decrypt_unchecked(ciphertext, key, nonce) ==
  Ok(CtrUnXor(ciphertext.body, key, nonce))

\* decrypt: the cipher's error becomes DecryptionError
decrypt(ciphertext, key, nonce) ==
  LET r == AeadDecrypt(key, nonce, ciphertext)
  IN  IF r.ok THEN r ELSE Err("DecryptionError")

\* Sha256::finalize: a digest only the same bytes produce
Sha256(data) == [sha256 |-> data]

\* hex::encode: the lower-case hex string of a digest
HexEncode(digest) == [hex |-> digest]

\* compute_hash: SHA-256 of the data, in hex
compute_hash(data) == HexEncode(Sha256(data))

Min(a, b) == IF a < b THEN a ELSE b

\* slice::chunks_exact: a short final chunk is left out
RECURSIVE chunks_exact(_, _)
chunks_exact(data, size) ==
  IF Len(data) < size THEN <<>>
  ELSE <<SubSeq(data, 1, size)>> \o chunks_exact(SubSeq(data, size + 1, Len(data)), size)

\* slice::chunks: size bytes at a time from the front, the last chunk the rest
RECURSIVE chunks(_, _)
chunks(data, size) ==
  IF Len(data) = 0 THEN <<>>
  ELSE LET n == Min(size, Len(data))
       IN  <<SubSeq(data, 1, n)>> \o chunks(SubSeq(data, n + 1, Len(data)), size)

\* ------------------------------------------------------------- callers' inputs
NoCall == [called |-> FALSE]
NoElf == [called |-> FALSE, done |-> FALSE]
NoDlf == [called |-> FALSE, done |-> FALSE]

FlipByte(b) == (b + 1) % ByteMod

\* what a ciphertext body can be changed to: one byte flipped, the last byte
\* cut off, or a byte added
BodyVariants(body) ==
  {body}
    \cup {[body EXCEPT ![i] = FlipByte(body[i])] : i \in 1..Len(body)}
    \cup (IF Len(body) > 0 THEN {SubSeq(body, 1, Len(body) - 1)} ELSE {})
    \cup {Append(body, b) : b \in Byte}

\* the ciphertexts (body and tag) an attacker without the key derives from ct
Tampered(ct) ==
  {[body |-> b, tag |-> t] : b \in BodyVariants(ct.body), t \in {ct.tag, GarbledTag}}

ChunkFaults == {"intact", "flip", "tag", "nonce"}

\* one stored chunk (ciphertext, nonce) with a fault applied
FaultyChunk(chunk, f) ==
  CASE f = "intact" -> chunk
    [] f = "flip" -> [chunk EXCEPT !.ct.body[1] = FlipByte(@)]
    [] f = "tag" -> [chunk EXCEPT !.ct.tag = GarbledTag]
    [] f = "nonce" -> [chunk EXCEPT !.nonce = OtherNonce(@)]

\* ------------------------------------------------------------- calls
\* a call of encrypt(data, key)
EncryptCall ==
  /\ pc = "idle"
  /\ encCount < MaxEncrypts
  /\ \E data \in ByteSeqs, key \in Keys, n \in Nonces :
       /\ encrypt(data, key, n)
       /\ enc' = [called |-> TRUE, data |-> data, key |-> key,
                  out |-> encrypt_result(data, key, n)]
  /\ dec' = NoCall
  /\ elf' = NoElf
  /\ dlf' = NoDlf
  /\ UNCHANGED pc
  /\ UNCHANGED <<syncVars, serverVars, watchVars, clientVars, pwVars, storageVars>>

\* a call of decrypt(c, k, n) on the last encrypt's output or a changed copy
DecryptCall ==
  /\ pc = "idle"
  /\ enc.called
  /\ \E c \in Tampered(enc.out.ct), k \in Keys, n \in Nonces :
       dec' = [called |-> TRUE, ct |-> c, key |-> k, nonce |-> n,
               res |-> decrypt(c, k, n)]
  /\ pc' = "end"
  /\ UNCHANGED <<rngDrawn, encCount, encNonces, enc, elf, dlf>>
  /\ UNCHANGED <<syncVars, serverVars, watchVars, clientVars, pwVars, storageVars>>

\* encrypt_large_file(data, key) is entered: the chunks iterator is set up
ElfStart ==
  /\ pc = "idle"
  /\ \E data \in ByteSeqs, key \in Keys :
       /\ encCount + Len(chunks(data, CHUNK_SIZE)) <= MaxEncrypts
       /\ elf' = [called |-> TRUE, done |-> FALSE, data |-> data, key |-> key,
                  rest |-> chunks(data, CHUNK_SIZE), out |-> <<>>]
  /\ pc' = "elf"
  /\ enc' = NoCall
  /\ dec' = NoCall
  /\ dlf' = NoDlf
  /\ UNCHANGED <<rngDrawn, encCount, encNonces>>
  /\ UNCHANGED <<syncVars, serverVars, watchVars, clientVars, pwVars, storageVars>>

\* one turn of encrypt_large_file's loop: encrypt the next chunk and push it
ElfStep ==
  /\ pc = "elf"
  /\ elf.rest # <<>>
  /\ \E n \in Nonces :
       /\ encrypt(Head(elf.rest), elf.key, n)
       /\ elf' = [elf EXCEPT !.rest = Tail(@),
                             !.out = Append(@, encrypt_result(Head(elf.rest), elf.key, n))]
  /\ UNCHANGED <<pc, enc, dec, dlf>>
  /\ UNCHANGED <<syncVars, serverVars, watchVars, clientVars, pwVars, storageVars>>

\* encrypt_large_file returns Ok(encrypted_chunks)
ElfReturn ==
  /\ pc = "elf"
  /\ elf.rest = <<>>
  /\ elf' = [elf EXCEPT !.done = TRUE]
  /\ pc' = "idle"
  /\ UNCHANGED <<rngDrawn, encCount, encNonces, enc, dec, dlf>>
  /\ UNCHANGED <<syncVars, serverVars, watchVars, clientVars, pwVars, storageVars>>

\* the orders in which n chunks can be delivered
Orders(n) == {f \in [1..n -> 1..n] : \A i, j \in 1..n : i # j => f[i] # f[j]}

\* decrypt_large_file(chunks, key) is entered, on the chunks the last
\* encrypt_large_file returned, in the order they were delivered, each intact
\* or with a fault; the vector carries no chunk index
DlfStart ==
  /\ pc = "idle"
  /\ elf.done
  /\ \E faults \in [1..Len(elf.out) -> ChunkFaults], key \in Keys,
        order \in Orders(Len(elf.out)) :
       dlf' = [called |-> TRUE, done |-> FALSE, key |-> key, faults |-> faults,
               order |-> order,
               chunks |-> [i \in 1..Len(elf.out) |->
                             FaultyChunk(elf.out[order[i]], faults[i])],
               next |-> 1, data |-> <<>>, calls |-> 0, res |-> Ok(<<>>)]
  /\ pc' = "dlf"
  /\ UNCHANGED <<rngDrawn, encCount, encNonces, enc, dec, elf>>
  /\ UNCHANGED <<syncVars, serverVars, watchVars, clientVars, pwVars, storageVars>>

\* one turn of the loop that goes on to the next chunk after a failed one
DlfStepSkip ==
  /\ pc = "dlf"
  /\ dlf.next <= Len(dlf.chunks)
  /\ LET c == dlf.chunks[dlf.next]
         r == decrypt(c.ct, dlf.key, c.nonce)
     IN  /\ dlf' = [dlf EXCEPT !.calls = @ + 1, !.next = @ + 1,
                               !.data = IF r.ok THEN @ \o r.val ELSE @]
         /\ UNCHANGED pc
  /\ UNCHANGED <<rngDrawn, encCount, encNonces, enc, dec, elf>>
  /\ UNCHANGED <<syncVars, serverVars, watchVars, clientVars, pwVars, storageVars>>

\* one turn of decrypt_large_file's loop: decrypt the next chunk; its error
\* returns from the function (the ? operator), its bytes extend data
DlfStep ==
  /\ pc = "dlf"
  /\ dlf.next <= Len(dlf.chunks)
  /\ LET c == dlf.chunks[dlf.next]
         r == decrypt(c.ct, dlf.key, c.nonce)
     IN  IF r.ok
         THEN /\ dlf' = [dlf EXCEPT !.calls = @ + 1, !.next = @ + 1,
                                    !.data = @ \o r.val]
              /\ UNCHANGED pc
         ELSE /\ dlf' = [dlf EXCEPT !.calls = @ + 1, !.done = TRUE, !.res = r]
              /\ pc' = "end"
  /\ UNCHANGED <<rngDrawn, encCount, encNonces, enc, dec, elf>>
  /\ UNCHANGED <<syncVars, serverVars, watchVars, clientVars, pwVars, storageVars>>

\* decrypt_large_file returns Ok(data)
DlfReturn ==
  /\ pc = "dlf"
  /\ dlf.next > Len(dlf.chunks)
  /\ dlf' = [dlf EXCEPT !.done = TRUE, !.res = Ok(dlf.data)]
  /\ pc' = "end"
  /\ UNCHANGED <<rngDrawn, encCount, encNonces, enc, dec, elf>>
  /\ UNCHANGED <<syncVars, serverVars, watchVars, clientVars, pwVars, storageVars>>

\* ------------------------------------------------------------- the filesystem
Paths == {"local", "remote"}
TaskIds == {1, 2}
Times == 0..MaxTime
FileContents == UNION {[1..n -> Byte] : n \in 0..MaxFileLen}

\* a path with no file: fs::metadata and fs::read fail on it
NoFile == [exists |-> FALSE, hasMtime |-> FALSE, mtime |-> 0, content |-> <<>>]

\* a file is created or rewritten; hasMtime is whether Metadata::modified can
\* give its modification time
FsWrite ==
  /\ \E p \in Paths, c \in FileContents, t \in Times, h \in BOOLEAN :
       fs' = [fs EXCEPT ![p] = [exists |-> TRUE, hasMtime |-> h,
                                mtime |-> IF h THEN t ELSE 0, content |-> c]]
  /\ rc' = NoCall
  /\ det' = NoCall
  /\ detPrev' = NoCall
  /\ UNCHANGED <<traceLog, pending>>
  /\ UNCHANGED <<cryptoVars, serverVars, watchVars, clientVars, pwVars, storageVars>>

\* a file is removed
FsRemove ==
  /\ \E p \in Paths :
       /\ fs[p].exists
       /\ fs' = [fs EXCEPT ![p] = NoFile]
  /\ rc' = NoCall
  /\ det' = NoCall
  /\ detPrev' = NoCall
  /\ UNCHANGED <<traceLog, pending>>
  /\ UNCHANGED <<cryptoVars, serverVars, watchVars, clientVars, pwVars, storageVars>>

\* fs::metadata(path)?.modified()?: an io::Error, which ? turns into
\* Error::IoError, when the file is missing or has no modification time
fs_modified(path) ==
  IF fs[path].exists /\ fs[path].hasMtime THEN Ok(fs[path].mtime) ELSE Err("IoError")

\* fs::read(path)?
fs_read(path) ==
  IF fs[path].exists THEN Ok(fs[path].content) ELSE Err("IoError")

\* ------------------------------------------------------------- sync.rs
Strategies == {"LastWriteWins", "Manual", "KeepLocal", "KeepRemote"}

\* compute_file_hash with the modification time hashed in place of the bytes
compute_file_hash_of_path(path) ==
  IF fs_read(path).ok THEN Ok(HexEncode(Sha256(<<fs[path].mtime>>))) ELSE Err("IoError")

\* compute_file_hash: SHA-256, in hex, of the bytes read from the file
compute_file_hash(path) ==
  LET data == fs_read(path)
  IN  IF data.ok THEN Ok(HexEncode(Sha256(data.val))) ELSE Err("IoError")

\* detect_changes: whether the file's hash differs from remote_hash
detect_changes(local_path, remote_hash) ==
  LET local_hash == compute_file_hash(local_path)
  IN  IF local_hash.ok THEN Ok(local_hash.val # remote_hash) ELSE Err("IoError")

\* resolve_conflict whose LastWriteWins lets the local side win a tie
resolve_conflict_tie_local(strategy, local_path, remote_path) ==
  CASE strategy = "LastWriteWins" ->
         IF ~fs_modified(local_path).ok \/ ~fs_modified(remote_path).ok
         THEN Err("IoError")
         ELSE Ok(IF fs_modified(local_path).val >= fs_modified(remote_path).val
                 THEN local_path ELSE remote_path)
    [] strategy = "KeepLocal" -> Ok(local_path)
    [] strategy = "KeepRemote" -> Ok(remote_path)
    [] strategy = "Manual" -> Ok(local_path)

\* resolve_conflict that reads both modification times before any strategy
resolve_conflict_reads_first(strategy, local_path, remote_path) ==
  IF ~fs_modified(local_path).ok \/ ~fs_modified(remote_path).ok
  THEN Err("IoError")
  ELSE CASE strategy = "LastWriteWins" ->
              Ok(IF fs_modified(local_path).val > fs_modified(remote_path).val
                 THEN local_path ELSE remote_path)
         [] strategy = "KeepLocal" -> Ok(local_path)
         [] strategy = "KeepRemote" -> Ok(remote_path)
         [] strategy = "Manual" -> Ok(local_path)

\* resolve_conflict: the path it returns, or the error
resolve_conflict(strategy, local_path, remote_path) ==
  CASE strategy = "LastWriteWins" ->
         LET local_modified == fs_modified(local_path)
             remote_modified == fs_modified(remote_path)
         IN  IF ~local_modified.ok THEN Err("IoError")
             ELSE IF ~remote_modified.ok THEN Err("IoError")
             ELSE Ok(IF local_modified.val > remote_modified.val
                     THEN local_path ELSE remote_path)
    [] strategy = "KeepLocal" -> Ok(local_path)
    [] strategy = "KeepRemote" -> Ok(remote_path)
    [] strategy = "Manual" -> Ok(local_path)

\* the tracing events resolve_conflict emits: the info! of the Manual arm
resolve_conflict_events(strategy, local_path, remote_path) ==
  IF strategy = "Manual"
  THEN <<[level |-> "INFO", msg |-> <<"Conflict between", local_path, remote_path>>]>>
  ELSE <<>>

\* a call of resolve_conflict(strategy, local_path, remote_path)
ResolveCall ==
  /\ \E strategy \in Strategies, local_path \in Paths, remote_path \in Paths :
       /\ local_path # remote_path
       /\ Len(traceLog) + Len(resolve_conflict_events(strategy, local_path, remote_path))
            <= MaxLog
       /\ rc' = [called |-> TRUE, strategy |-> strategy,
                 local |-> local_path, remote |-> remote_path,
                 res |-> resolve_conflict(strategy, local_path, remote_path)]
       /\ traceLog' = traceLog \o resolve_conflict_events(strategy, local_path, remote_path)
  /\ UNCHANGED <<fs, pending, det, detPrev>>
  /\ UNCHANGED <<cryptoVars, serverVars, watchVars, clientVars, pwVars, storageVars>>

\* the strings passed as remote_hash: the hash of some content, or a string
\* that is the hash of none
NotAHash == HexEncode(Sha256(<<ByteMod>>))
RemoteHashes == {compute_hash(c) : c \in FileContents} \cup {NotAHash}

\* a call of detect_changes(local_path, remote_hash)
DetectCall ==
  /\ \E local_path \in Paths, remote_hash \in RemoteHashes :
       det' = [called |-> TRUE, path |-> local_path, remote_hash |-> remote_hash,
               res |-> detect_changes(local_path, remote_hash)]
  /\ detPrev' = det
  /\ UNCHANGED <<fs, rc, traceLog, pending>>
  /\ UNCHANGED <<cryptoVars, serverVars, watchVars, clientVars, pwVars, storageVars>>

\* ------------------------------------------------------------- server/auth.rs
\* the accounts of the users table
Users == {"u1", "u2"}

\* the strings sent as a token: JWTs signed with SECRET_KEY or another key,
\* expired or not
Tokens == [sub : Users, sig : {"valid"}, expired : BOOLEAN]
            \cup [sub : {"u1"}, sig : {"forged"}, expired : {FALSE}]

\* generate_token: a JWT for user_id, signed with SECRET_KEY, expiring in 7 days
generate_token(user_id) == [sub |-> user_id, sig |-> "valid", expired |-> FALSE]

\* verify_token with a Validation that does not check exp
verify_token_no_exp(token) ==
  IF token.sig = "valid"
  THEN Ok([sub |-> token.sub])
  ELSE Err("AuthenticationFailed")

\* verify_token: the claims of a token whose signature and expiry validate
verify_token(token) ==
  IF token.sig = "valid" /\ ~token.expired
  THEN Ok([sub |-> token.sub])
  ELSE Err("AuthenticationFailed")

\* ------------------------------------------------------------- server/handlers.rs
NoHeader == [present |-> FALSE]

\* the Authorization headers of a request: none, one without the "Bearer "
\* prefix, or "Bearer " and a token
Headers ==
  {NoHeader}
    \cup {[present |-> TRUE, scheme |-> "Basic", token |-> generate_token("u1")]}
    \cup {[present |-> TRUE, scheme |-> "Bearer", token |-> t] : t \in Tokens}

\* headers.get("authorization") ... strip_prefix("Bearer ") ... ok_or(AuthenticationFailed)
bearer_token(headers) ==
  IF headers.present /\ headers.scheme = "Bearer"
  THEN Ok(headers.token)
  ELSE Err("AuthenticationFailed")

\* the claims of a request: the token taken from the header, then verify_token
authenticate(headers) ==
  LET token == bearer_token(headers)
  IN  IF token.ok THEN verify_token(token.val) ELSE Err("AuthenticationFailed")

\* ------------------------------------------------------------- server/db.rs
\* the sizes a request declares: an empty file and a file of two chunks
Sizes == {0, CHUNK_SIZE + 1}

\* create_file_metadata: the row it inserts and returns; the id is a new uuid
create_file_metadata(user_id, path, name, size, encrypted_hash, chunk_count) ==
  [id |-> Len(dbFiles) + 1, user_id |-> user_id, path |-> path, name |-> name,
   size |-> size, encrypted_hash |-> encrypted_hash, chunk_count |-> chunk_count,
   is_deleted |-> FALSE]

\* list_user_files without the user_id condition of the query
list_user_files_all(user_id) ==
  {dbFiles[i] : i \in {j \in 1..Len(dbFiles) : ~dbFiles[j].is_deleted}}

\* list_user_files: SELECT ... WHERE user_id = ? AND is_deleted = 0
list_user_files(user_id) ==
  {dbFiles[i] : i \in {j \in 1..Len(dbFiles) :
                          dbFiles[j].user_id = user_id /\ ~dbFiles[j].is_deleted}}

\* ------------------------------------------------------------- requests
\* POST /api/v1/files/upload: upload_file and _upload_file
UploadFile ==
  /\ Len(dbFiles) < MaxFiles
  /\ \E headers \in Headers, path \in Paths, size \in Sizes :
       LET claims == authenticate(headers)
           req == [path |-> path, size |-> size]
           file == create_file_metadata(claims.val.sub, path, "", size,
                                        compute_hash(path), 0)
       IN  IF claims.ok
           THEN /\ dbFiles' = Append(dbFiles, file)
                /\ resp' = [called |-> TRUE, handler |-> "upload_file",
                            headers |-> headers, req |-> req, status |-> 201,
                            body |-> [file_id |-> file.id, path |-> file.path,
                                      size |-> file.size]]
                /\ upSession' = [file_id |-> file.id, acks |-> 0]
           ELSE /\ resp' = [called |-> TRUE, handler |-> "upload_file",
                            headers |-> headers, req |-> req, status |-> 400,
                            body |-> [error |-> claims.err]]
                /\ UNCHANGED <<dbFiles, upSession>>
  /\ UNCHANGED <<dbChunks, dbVersions, statusSeen>>
  /\ UNCHANGED <<cryptoVars, syncVars, watchVars, clientVars, pwVars, storageVars>>

\* GET /api/v1/files/list: list_files and _list_files
ListFiles ==
  /\ \E headers \in Headers :
       LET claims == authenticate(headers)
       IN  resp' = IF claims.ok
                   THEN [called |-> TRUE, handler |-> "list_files", headers |-> headers,
                         status |-> 200,
                         body |-> [files |-> list_user_files(claims.val.sub)]]
                   ELSE [called |-> TRUE, handler |-> "list_files", headers |-> headers,
                         status |-> 401, body |-> [error |-> claims.err]]
  /\ UNCHANGED <<dbFiles, dbChunks, dbVersions, upSession, statusSeen>>
  /\ UNCHANGED <<cryptoVars, syncVars, watchVars, clientVars, pwVars, storageVars>>

\* POST /api/v1/files/delete/:file_id: delete_file
DeleteFile ==
  /\ \E file_id \in 1..MaxFiles :
       resp' = [called |-> TRUE, handler |-> "delete_file", file_id |-> file_id,
                status |-> 200, body |-> [deleted |-> TRUE]]
  /\ UNCHANGED <<dbFiles, dbChunks, dbVersions, upSession, statusSeen>>
  /\ UNCHANGED <<cryptoVars, syncVars, watchVars, clientVars, pwVars, storageVars>>

\* POST /api/v1/chunks/upload: upload_chunk; the answer to the next chunk of
\* the file of the last upload is counted in upSession
UploadChunk ==
  /\ \E file_id \in 1..MaxFiles, chunk_index \in 0..(MaxChunks - 1) :
       /\ resp' = [called |-> TRUE, handler |-> "upload_chunk",
                   req |-> [file_id |-> file_id, chunk_index |-> chunk_index],
                   status |-> 201, body |-> [chunk_id |-> "chunk_123"]]
       /\ upSession' = IF file_id = upSession.file_id /\ chunk_index = upSession.acks
                       THEN [upSession EXCEPT !.acks = @ + 1]
                       ELSE upSession
  /\ UNCHANGED <<dbFiles, dbChunks, dbVersions, statusSeen>>
  /\ UNCHANGED <<cryptoVars, syncVars, watchVars, clientVars, pwVars, storageVars>>

\* GET /api/v1/sync/status: sync_status
SyncStatus ==
  /\ resp' = [called |-> TRUE, handler |-> "sync_status", status |-> 200,
              body |-> [status |-> "synced"]]
  /\ statusSeen' = statusSeen \cup {"synced"}
  /\ UNCHANGED <<dbFiles, dbChunks, dbVersions, upSession>>
  /\ UNCHANGED <<cryptoVars, syncVars, watchVars, clientVars, pwVars, storageVars>>

\* ------------------------------------------------------------- sync.rs: FileWatcher
\* the paths given to add_path; "." is the path of the event the thread sends
WatchPaths == {".", "docs"}
LoopIds == {1, 2}
Kinds == {"Created", "Modified", "Deleted", "Renamed"}

\* FileChangeEvent; to is the second path of Renamed
FileChangeEvent(kind, path, to) == [kind |-> kind, path |-> path, to |-> to]

Range(seq) == {seq[i] : i \in DOMAIN seq}

\* add_path that pushes without the contains test
add_path_push(paths, path) == Append(paths, path)

\* add_path: watched_paths after the call
add_path(paths, path) ==
  IF path \notin Range(paths) THEN Append(paths, path) ELSE paths

\* a call of add_path(path); it returns Ok(())
AddPath ==
  /\ \E path \in WatchPaths :
       /\ Len(watched_paths) <= Cardinality(WatchPaths)
       /\ watched_paths' = add_path(watched_paths, path)
       /\ lastAdd' = [called |-> TRUE, path |-> path, res |-> Ok("unit")]
  /\ UNCHANGED <<loops, changes>>
  /\ UNCHANGED <<cryptoVars, syncVars, serverVars, clientVars, pwVars, storageVars>>

\* a call of start_watching: the channel is made, watched_paths is cloned into
\* the new thread, and the receiver is returned
StartWatching ==
  /\ Len(loops) < Cardinality(LoopIds)
  /\ loops' = Append(loops, [paths |-> watched_paths, ticks |-> 0, sent |-> <<>>,
                             rxAlive |-> TRUE])
  /\ UNCHANGED <<watched_paths, changes, lastAdd>>
  /\ UNCHANGED <<cryptoVars, syncVars, serverVars, clientVars, pwVars, storageVars>>

\* the loop of thread i, left when send fails on a dropped Receiver
TickUntilDropped(i) ==
  /\ i \in DOMAIN loops
  /\ loops[i].ticks < MaxTicks
  /\ loops[i].rxAlive
  /\ loops' = [loops EXCEPT
                 ![i].ticks = @ + 1,
                 ![i].sent = Append(@, FileChangeEvent("Modified", ".", ""))]
  /\ changes' = [k \in DOMAIN changes |->
                   IF i <= changes[k].nloops
                   THEN [changes[k] EXCEPT !.polled = @ \cup {i}]
                   ELSE changes[k]]
  /\ UNCHANGED <<watched_paths, lastAdd>>
  /\ UNCHANGED <<cryptoVars, syncVars, serverVars, clientVars, pwVars, storageVars>>

\* one turn of the loop of thread i: it wakes from its sleep and sends
\* Modified("."); the result of send is dropped. The thread has then polled
\* every change made since it started
Tick(i) ==
  /\ i \in DOMAIN loops
  /\ loops[i].ticks < MaxTicks
  /\ loops' = [loops EXCEPT
                 ![i].ticks = @ + 1,
                 ![i].sent = IF loops[i].rxAlive
                             THEN Append(@, FileChangeEvent("Modified", ".", ""))
                             ELSE @]
  /\ changes' = [k \in DOMAIN changes |->
                   IF i <= changes[k].nloops
                   THEN [changes[k] EXCEPT !.polled = @ \cup {i}]
                   ELSE changes[k]]
  /\ UNCHANGED <<watched_paths, lastAdd>>
  /\ UNCHANGED <<cryptoVars, syncVars, serverVars, clientVars, pwVars, storageVars>>

\* the caller drops the Receiver of thread i
DropReceiver(i) ==
  /\ i \in DOMAIN loops
  /\ loops[i].rxAlive
  /\ loops' = [loops EXCEPT ![i].rxAlive = FALSE]
  /\ UNCHANGED <<watched_paths, changes, lastAdd>>
  /\ UNCHANGED <<cryptoVars, syncVars, serverVars, clientVars, pwVars, storageVars>>

\* a file under a registered path is created, modified, deleted or renamed;
\* nloops is the number of threads running at that time
FsChange ==
  /\ Len(changes) < MaxChanges
  /\ \E kind \in Kinds, path \in Range(watched_paths), to \in WatchPaths :
       /\ (kind = "Renamed") => to # path
       /\ (kind # "Renamed") => to = "."
       /\ changes' = Append(changes,
                            [kind |-> kind, path |-> path,
                             to |-> IF kind = "Renamed" THEN to ELSE "",
                             nloops |-> Len(loops), polled |-> {}])
  /\ UNCHANGED <<watched_paths, loops, lastAdd>>
  /\ UNCHANGED <<cryptoVars, syncVars, serverVars, clientVars, pwVars, storageVars>>

\* ------------------------------------------------------------- client/sync_client.rs
\* the encryption key the client passes to its uploads
ClientKeys == {1}

\* an upload_file future that was called and has not returned
InFlight(t) == tasks[t].pc \in {"reading", "resumed"}

\* the server copy of a path is changed by another device: its hash differs
\* from the one of the last sync from then on
RemoteChange ==
  /\ \E path \in Paths :
       /\ path \notin remoteDiverged
       /\ remoteDiverged' = remoteDiverged \cup {path}
  /\ UNCHANGED tasks
  /\ UNCHANGED <<cryptoVars, syncVars, serverVars, watchVars, pwVars, storageVars>>

\* a call of upload_file(file_path, encryption_key): the future runs to the
\* await of fs::read
UploadStart(t) ==
  /\ tasks[t].pc = "idle"
  /\ \E file_path \in Paths, encryption_key \in ClientKeys :
       tasks' = [tasks EXCEPT ![t] = [pc |-> "reading", file_path |-> file_path,
                                      encryption_key |-> encryption_key]]
  /\ UNCHANGED remoteDiverged
  /\ UNCHANGED <<cryptoVars, syncVars, serverVars, watchVars, pwVars, storageVars>>

\* fs::read(file_path) completes: an error returns from upload_file through ?
UploadRead(t) ==
  /\ tasks[t].pc = "reading"
  /\ LET data == fs_read(tasks[t].file_path)
     IN  tasks' = [tasks EXCEPT ![t] =
                     IF data.ok
                     THEN [pc |-> "resumed", file_path |-> tasks[t].file_path,
                           encryption_key |-> tasks[t].encryption_key,
                           data |-> data.val]
                     ELSE [pc |-> "done", file_path |-> tasks[t].file_path,
                           res |-> Err("IoError"),
                           diverged |-> tasks[t].file_path \in remoteDiverged]]
  /\ UNCHANGED remoteDiverged
  /\ UNCHANGED <<cryptoVars, syncVars, serverVars, watchVars, pwVars, storageVars>>

\* the rest of upload_file: encrypt, compute_hash of the ciphertext, Ok(hash);
\* nothing is sent. diverged records whether the server copy had changed
UploadReturn(t) ==
  /\ tasks[t].pc = "resumed"
  /\ encCount < MaxEncrypts
  /\ \E n \in Nonces :
       /\ encrypt(tasks[t].data, tasks[t].encryption_key, n)
       /\ tasks' = [tasks EXCEPT ![t] =
            [pc |-> "done", file_path |-> tasks[t].file_path,
             res |-> Ok(compute_hash(
                          encrypt_result(tasks[t].data, tasks[t].encryption_key, n).ct)),
             diverged |-> tasks[t].file_path \in remoteDiverged]]
  /\ UNCHANGED remoteDiverged
  /\ UNCHANGED <<pc, enc, dec, elf, dlf>>
  /\ UNCHANGED <<syncVars, serverVars, watchVars, pwVars, storageVars>>

\* ------------------------------------------------------------- storage.rs
\* relative paths given to a LocalStorage; "docs" is the parent of "docs/a"
RelPaths == {"docs", "docs/a", "b"}

\* a path under base_path with no entry
NoEntry == [kind |-> "none", data |-> <<>>]

\* the parent directory of a relative path; "" is base_path itself
Parent(p) == IF p = "docs/a" THEN "docs" ELSE ""

\* create_dir_all(dir) on the entries fsys: it fails when dir is a file
create_dir_all(fsys, dir) ==
  IF dir = "" THEN Ok(fsys)
  ELSE IF fsys[dir].kind = "file" THEN Err("io::Error")
  ELSE Ok([fsys EXCEPT ![dir] = [kind |-> "dir", data |-> <<>>]])

\* store_file: the entries after the call and its result; the parent
\* directories are created first, then the file is written, and each io
\* error becomes StorageError
store_file(fsys, relative_path, data) ==
  LET made == create_dir_all(fsys, Parent(relative_path))
  IN  IF ~made.ok
      THEN [st |-> fsys, res |-> Err("StorageError")]
      ELSE IF made.val[relative_path].kind = "dir"
      THEN [st |-> made.val, res |-> Err("StorageError")]
      ELSE [st |-> [made.val EXCEPT ![relative_path] = [kind |-> "file", data |-> data]],
            res |-> Ok(relative_path)]

\* retrieve_file: async_fs::read of the joined path
retrieve_file(fsys, relative_path) ==
  IF fsys[relative_path].kind = "file"
  THEN Ok(fsys[relative_path].data)
  ELSE Err("StorageError")

\* delete_file: async_fs::remove_file of the joined path
delete_file(fsys, relative_path) ==
  IF fsys[relative_path].kind = "file"
  THEN [st |-> [fsys EXCEPT ![relative_path] = NoEntry], res |-> Ok("unit")]
  ELSE [st |-> fsys, res |-> Err("StorageError")]

\* file_exists: Path::exists of the joined path
file_exists(fsys, relative_path) == fsys[relative_path].kind # "none"

\* a call of store_file(relative_path, data)
StoreFileCall ==
  /\ \E relative_path \in RelPaths, data \in FileContents :
       LET r == store_file(st, relative_path, data)
       IN  /\ st' = r.st
           /\ stored' = IF r.res.ok
                        THEN [stored EXCEPT ![relative_path] = [has |-> TRUE, data |-> data]]
                        ELSE stored
           /\ ls' = [called |-> TRUE, op |-> "store_file", path |-> relative_path,
                     res |-> r.res]
  /\ UNCHANGED <<cryptoVars, syncVars, serverVars, watchVars, clientVars, pwVars>>

\* a call of retrieve_file(relative_path)
RetrieveFileCall ==
  /\ \E relative_path \in RelPaths :
       ls' = [called |-> TRUE, op |-> "retrieve_file", path |-> relative_path,
              res |-> retrieve_file(st, relative_path)]
  /\ UNCHANGED <<st, stored>>
  /\ UNCHANGED <<cryptoVars, syncVars, serverVars, watchVars, clientVars, pwVars>>

\* a call of delete_file(relative_path); wasStored and othersKept record the
\* entries before the call and what the call did to the other paths
DeleteFileCall ==
  /\ \E relative_path \in RelPaths :
       LET r == delete_file(st, relative_path)
       IN  /\ st' = r.st
           /\ stored' = IF r.res.ok
                        THEN [stored EXCEPT ![relative_path] = [has |-> FALSE, data |-> <<>>]]
                        ELSE stored
           /\ ls' = [called |-> TRUE, op |-> "delete_file", path |-> relative_path,
                     res |-> r.res, wasStored |-> stored[relative_path].has,
                     othersKept |-> \A q \in RelPaths \ {relative_path} : r.st[q] = st[q]]
  /\ UNCHANGED <<cryptoVars, syncVars, serverVars, watchVars, clientVars, pwVars>>

\* a call of file_exists(relative_path)
FileExistsCall ==
  /\ \E relative_path \in RelPaths :
       ls' = [called |-> TRUE, op |-> "file_exists", path |-> relative_path,
              exists |-> file_exists(st, relative_path)]
  /\ UNCHANGED <<st, stored>>
  /\ UNCHANGED <<cryptoVars, syncVars, serverVars, watchVars, clientVars, pwVars>>

\* ------------------------------------------------------------- crypto.rs: passwords
Passwords == {"pw1", "pw2"}
Salts == {1, 2, 3}

\* the Argon2 output for a password and a salt
Argon2(password, salt) == [argon2 |-> password, salt |-> salt]

\* the strings given as a stored hash: PHC strings with any salt and any
\* output, and strings that are not PHC strings
PhcStrings == [wf : {TRUE}, salt : Salts,
               out : {Argon2(pw, s) : pw \in Passwords, s \in Salts}]
MalformedHashes == {[wf |-> FALSE, text |-> ""], [wf |-> FALSE, text |-> "garbage"]}
HashStrings == PhcStrings \cup MalformedHashes

\* hash_password: the PHC string of the Argon2 output under the generated salt
hash_password(password, salt) ==
  Ok([wf |-> TRUE, salt |-> salt, out |-> Argon2(password, salt)])

\* PasswordHash::new(hash): the parse of a PHC string
PasswordHash_new(hash) ==
  IF hash.wf THEN Ok(hash) ELSE Err("password_hash::Error")

\* verify_password: the parse error is mapped to EncryptionError and returned
\* by ?; otherwise Ok of whether the Argon2 output of the password under the
\* salt of the hash is the output in the hash
verify_password(password, hash) ==
  LET parsed_hash == PasswordHash_new(hash)
  IN  IF ~parsed_hash.ok
      THEN Err("EncryptionError")
      ELSE Ok(Argon2(password, parsed_hash.val.salt) = parsed_hash.val.out)

\* a call of hash_password(password)
HashPasswordCall ==
  /\ \E password \in Passwords, salt \in Salts \ saltDrawn :
       /\ saltDrawn' = saltDrawn \cup {salt}
       /\ hp' = [called |-> TRUE, password |-> password,
                 res |-> hash_password(password, salt)]
  /\ UNCHANGED vp
  /\ UNCHANGED <<cryptoVars, syncVars, serverVars, watchVars, clientVars, storageVars>>

\* a call of verify_password(password, hash)
VerifyPasswordCall ==
  /\ \E password \in Passwords, hash \in HashStrings :
       vp' = [called |-> TRUE, password |-> password, hash |-> hash,
              res |-> verify_password(password, hash)]
  /\ UNCHANGED <<saltDrawn, hp>>
  /\ UNCHANGED <<cryptoVars, syncVars, serverVars, watchVars, clientVars, storageVars>>

\* ------------------------------------------------------------- specification
Init ==
  /\ rngDrawn = {}
  /\ encCount = 0
  /\ encNonces = {}
  /\ pc = "idle"
  /\ enc = NoCall
  /\ dec = NoCall
  /\ elf = NoElf
  /\ dlf = NoDlf
  /\ fs = [p \in Paths |-> NoFile]
  /\ rc = NoCall
  /\ traceLog = <<>>
  /\ pending = {}
  /\ det = NoCall
  /\ detPrev = NoCall
  /\ dbFiles = <<>>
  /\ dbChunks = {}
  /\ dbVersions = {}
  /\ resp = NoCall
  /\ upSession = [file_id |-> 0, acks |-> 0]
  /\ statusSeen = {}
  /\ watched_paths = <<>>
  /\ loops = <<>>
  /\ changes = <<>>
  /\ lastAdd = NoCall
  /\ tasks = [t \in TaskIds |-> [pc |-> "idle"]]
  /\ remoteDiverged = {}
  /\ saltDrawn = {}
  /\ hp = NoCall
  /\ vp = NoCall
  /\ st = [p \in RelPaths |-> NoEntry]
  /\ stored = [p \in RelPaths |-> [has |-> FALSE, data |-> <<>>]]
  /\ ls = NoCall

Next ==
  \/ EncryptCall
  \/ DecryptCall
  \/ ElfStart
  \/ ElfStep
  \/ ElfReturn
  \/ DlfStart
  \/ DlfStep
  \/ DlfReturn

Spec == Init /\ [][Next]_vars

ConflictNext ==
  \/ FsWrite
  \/ FsRemove
  \/ ResolveCall

ConflictSpec == Init /\ [][ConflictNext]_vars

DetectNext ==
  \/ FsWrite
  \/ FsRemove
  \/ DetectCall

DetectSpec == Init /\ [][DetectNext]_vars

ServerNext ==
  \/ UploadFile
  \/ ListFiles
  \/ DeleteFile
  \/ UploadChunk
  \/ SyncStatus

ServerSpec == Init /\ [][ServerNext]_vars

WatchNext ==
  \/ AddPath
  \/ StartWatching
  \/ \E i \in LoopIds : Tick(i)
  \/ \E i \in LoopIds : DropReceiver(i)
  \/ FsChange

WatchSpec == Init /\ [][WatchNext]_vars

\* the FileWatcher and its threads alone, with no change made to the files
WatcherNext ==
  \/ AddPath
  \/ StartWatching
  \/ \E i \in LoopIds : Tick(i)
  \/ \E i \in LoopIds : DropReceiver(i)

WatcherSpec == Init /\ [][WatcherNext]_vars

ClientNext ==
  \/ FsWrite
  \/ RemoteChange
  \/ \E t \in TaskIds : UploadStart(t)
  \/ \E t \in TaskIds : UploadRead(t)
  \/ \E t \in TaskIds : UploadReturn(t)

ClientSpec == Init /\ [][ClientNext]_vars

PasswordNext ==
  \/ HashPasswordCall
  \/ VerifyPasswordCall

PasswordSpec == Init /\ [][PasswordNext]_vars

StorageNext ==
  \/ StoreFileCall
  \/ RetrieveFileCall
  \/ DeleteFileCall
  \/ FileExistsCall

StorageSpec == Init /\ [][StorageNext]_vars

\* ------------------------------------------------------------- properties
CeilDiv(a, b) == (a + b - 1) \div b

RECURSIVE Concat(_)
Concat(ss) == IF ss = <<>> THEN <<>> ELSE Head(ss) \o Concat(Tail(ss))

\* the bytes of chunk i of data (from 1) for chunk size s
ChunkBytes(data, s, i) == SubSeq(data, (i - 1) * s + 1, Min(i * s, Len(data)))

\* the positions of dlf.chunks whose decryption under dlf.key fails
Failing ==
  {i \in 1..Len(dlf.chunks) :
     ~decrypt(dlf.chunks[i].ct, dlf.key, dlf.chunks[i].nonce).ok}

FirstFailing == CHOOSE i \in Failing : \A j \in Failing : i <= j

\* C1: encrypt_large_file returns ceil(len/CHUNK_SIZE) chunks, chunk i holding
\* bytes (i-1)*CHUNK_SIZE+1 .. i*CHUNK_SIZE of the data (the last one the rest);
\* decrypt_large_file on these chunks under the same key returns the data; and
\* for every chunk size s > 0 chunks(data, s) has ceil(len/s) pieces that
\* concatenate to the data.
C1_ChunkRoundTrip ==
  /\ elf.called =>
       \A s \in 1..(MaxLen + 1) :
         /\ Len(chunks(elf.data, s)) = CeilDiv(Len(elf.data), s)
         /\ Concat(chunks(elf.data, s)) = elf.data
         /\ \A i \in 1..Len(chunks(elf.data, s)) : Len(chunks(elf.data, s)[i]) > 0
  /\ elf.done =>
       /\ Len(elf.out) = CeilDiv(Len(elf.data), CHUNK_SIZE)
       /\ \A i \in 1..Len(elf.out) :
            decrypt(elf.out[i].ct, elf.key, elf.out[i].nonce)
              = Ok(ChunkBytes(elf.data, CHUNK_SIZE, i))
  /\ (dlf.done /\ dlf.chunks = elf.out /\ dlf.key = elf.key) =>
       dlf.res = Ok(elf.data)

\* a file with a short final chunk has gone through both functions
C1_Witness ==
  /\ dlf.done /\ dlf.chunks = elf.out /\ dlf.key = elf.key
  /\ Len(elf.data) = CHUNK_SIZE + 1
  /\ Len(elf.out) = 2
  /\ dlf.res = Ok(elf.data)

\* C2: decrypt of the (ciphertext, nonce) pair encrypt(b, k) returned, under k,
\* returns exactly b.
C2_RoundTrip ==
  (dec.called /\ dec.ct = enc.out.ct /\ dec.nonce = enc.out.nonce /\ dec.key = enc.key)
    => dec.res = Ok(enc.data)

C2_Witness ==
  /\ dec.called /\ dec.ct = enc.out.ct /\ dec.nonce = enc.out.nonce /\ dec.key = enc.key
  /\ Len(enc.data) = MaxLen
  /\ dec.res.ok

\* C3: decrypt returns DecryptionError and no plaintext when the ciphertext or
\* tag differs from what encrypt produced, or the key is another key, or the
\* nonce is not the one encrypt returned.
C3_TamperDetected ==
  (dec.called /\ (dec.ct # enc.out.ct \/ dec.nonce # enc.out.nonce \/ dec.key # enc.key))
    => dec.res = Err("DecryptionError")

\* a ciphertext with one byte flipped, under the right key and nonce, was rejected
C3_Witness ==
  /\ dec.called /\ dec.nonce = enc.out.nonce /\ dec.key = enc.key
  /\ dec.ct.tag = enc.out.ct.tag
  /\ Len(dec.ct.body) = Len(enc.out.ct.body)
  /\ dec.ct.body # enc.out.ct.body
  /\ dec.res = Err("DecryptionError")

\* C4: when a chunk fails to decrypt, decrypt_large_file returns the
\* DecryptionError of the first failing chunk, has called decrypt on no chunk
\* after it, and returns none of the bytes decrypted before it.
C4_FirstFailureAborts ==
  (dlf.done /\ Failing # {}) =>
     /\ dlf.res = Err("DecryptionError")
     /\ dlf.res = decrypt(dlf.chunks[FirstFailing].ct, dlf.key, dlf.chunks[FirstFailing].nonce)
     /\ dlf.calls = FirstFailing
     /\ dlf.next = FirstFailing
     /\ dlf.res.val = <<>>

\* the second of two chunks failed after the first had decrypted to some bytes
C4_Witness ==
  /\ dlf.done /\ Len(dlf.chunks) = 2 /\ Failing = {2}
  /\ dlf.data # <<>>
  /\ ~dlf.res.ok

\* C5: every encrypt call makes one generate_nonce draw and uses the value
\* drawn, so no two encrypt calls (the chunks of encrypt_large_file included)
\* use the same nonce, under the same key or another.
C5_FreshNonce ==
  /\ Cardinality(rngDrawn) = encCount
  /\ Cardinality(encNonces) = encCount
  /\ encNonces = rngDrawn
  /\ elf.called =>
       \A i, j \in 1..Len(elf.out) : i # j => elf.out[i].nonce # elf.out[j].nonce
  /\ (enc.called /\ elf.called) =>
       \A i \in 1..Len(elf.out) : elf.out[i].nonce # enc.out.nonce

\* a single encrypt call and a two-chunk encrypt_large_file were made
C5_Witness ==
  /\ encCount = MaxEncrypts
  /\ elf.done /\ Len(elf.out) = 2
  /\ elf.out[1].nonce # elf.out[2].nonce

\* the modification time of the file at path can be read
Readable(path) == fs[path].exists /\ fs[path].hasMtime

\* C6: under LastWriteWins, with both modification times readable,
\* resolve_conflict returns the local path iff the local time is strictly
\* later, and the remote path when the times are equal or the remote is later.
C6_LastWriteWins ==
  (rc.called /\ rc.strategy = "LastWriteWins" /\ Readable(rc.local) /\ Readable(rc.remote))
    => /\ rc.res.ok
       /\ (rc.res.val = rc.local) <=> (fs[rc.local].mtime > fs[rc.remote].mtime)
       /\ (fs[rc.local].mtime <= fs[rc.remote].mtime) => rc.res.val = rc.remote

\* a tie went to the remote side
C6_Witness ==
  /\ rc.called /\ rc.strategy = "LastWriteWins"
  /\ Readable(rc.local) /\ Readable(rc.remote)
  /\ fs[rc.local].mtime = fs[rc.remote].mtime
  /\ rc.res.ok /\ rc.res.val = rc.remote

\* C7: KeepLocal returns the local path and KeepRemote the remote path,
\* whatever the modification times and whether or not they can be read.
C7_KeepSide ==
  /\ (rc.called /\ rc.strategy = "KeepLocal") => (rc.res.ok /\ rc.res.val = rc.local)
  /\ (rc.called /\ rc.strategy = "KeepRemote") => (rc.res.ok /\ rc.res.val = rc.remote)

\* KeepLocal returned the local path of a missing file
C7_Witness ==
  /\ rc.called /\ rc.strategy = "KeepLocal"
  /\ ~fs[rc.local].exists /\ ~Readable(rc.remote)
  /\ rc.res.ok /\ rc.res.val = rc.local

\* C8: under Manual, resolve_conflict returns the local path and the conflict
\* is held as pending.
C8_ManualRecordsPending ==
  (rc.called /\ rc.strategy = "Manual")
    => /\ rc.res.ok /\ rc.res.val = rc.local
       /\ <<rc.local, rc.remote>> \in pending

\* C9: resolve_conflict succeeds when the modification time of at least one
\* side can be read, and when it fails the error is ConflictError.
C9_FailsOnlyWithoutMetadata ==
  rc.called =>
    /\ (Readable(rc.local) \/ Readable(rc.remote)) => rc.res.ok
    /\ ~rc.res.ok => rc.res.err = "ConflictError"

\* C10: for a readable file, detect_changes returns true iff remote_hash
\* differs from compute_hash of the file's bytes, which compute_file_hash
\* returns; a second call on the unchanged file returns the same.
C10_DetectChanges ==
  (det.called /\ fs[det.path].exists) =>
     /\ compute_file_hash(det.path) = Ok(compute_hash(fs[det.path].content))
     /\ det.res.ok
     /\ det.res.val <=> (det.remote_hash # compute_hash(fs[det.path].content))
     /\ (detPrev.called /\ detPrev.path = det.path
           /\ detPrev.remote_hash = det.remote_hash) => detPrev.res = det.res

\* two calls on an unchanged file whose hash is remote_hash both returned false
C10_Witness ==
  /\ det.called /\ fs[det.path].exists /\ Len(fs[det.path].content) = MaxFileLen
  /\ detPrev.called /\ detPrev.path = det.path /\ detPrev.remote_hash = det.remote_hash
  /\ det.res.ok /\ ~det.res.val

\* C17: decrypt_large_file returns the original bytes for every order in which
\* the intact chunks are delivered.
C17_ReorderByIndex ==
  (dlf.done /\ dlf.key = elf.key /\ \A i \in 1..Len(dlf.chunks) : dlf.faults[i] = "intact")
    => dlf.res = Ok(elf.data)

\* C12: sync_status never reports a file as synced unless syncing was reported
\* before it.
C12_SyncedAfterSyncing ==
  (resp.called /\ resp.handler = "sync_status" /\ resp.body.status = "synced")
    => "syncing" \in statusSeen

\* C18: once delete_file has answered that a file is deleted, the row of the
\* file has is_deleted set, list_user_files no longer returns it, and its
\* chunks and versions are still stored.
C18_DeleteSetsFlag ==
  (resp.called /\ resp.handler = "delete_file" /\ resp.file_id <= Len(dbFiles)
     /\ resp.body.deleted)
    => /\ dbFiles[resp.file_id].is_deleted
       /\ \A u \in Users : dbFiles[resp.file_id] \notin list_user_files(u)

\* C19: chunk_count of every file is the number of its file_chunks rows, and
\* once the n chunks of a new file are uploaded its chunk_count is n and its
\* version 1 exists.
C19_ChunkCountMatches ==
  /\ \A i \in 1..Len(dbFiles) :
       dbFiles[i].chunk_count = Cardinality({c \in dbChunks : c.file_id = dbFiles[i].id})
  /\ (upSession.file_id # 0 /\ upSession.acks >= 1)
       => /\ dbFiles[upSession.file_id].chunk_count = upSession.acks
          /\ \E v \in dbVersions :
               v.file_id = upSession.file_id /\ v.version_number = 1

\* C20: the files listed for a user are exactly the rows of file_metadata
\* with that user_id and is_deleted false.
C20_ListExact ==
  (resp.called /\ resp.handler = "list_files" /\ resp.status = 200)
    => resp.body.files =
         {dbFiles[i] : i \in {j \in 1..Len(dbFiles) :
                                 /\ dbFiles[j].user_id = resp.headers.token.sub
                                 /\ ~dbFiles[j].is_deleted}}

C20_Witness ==
  /\ resp.called /\ resp.handler = "list_files" /\ resp.status = 200
  /\ resp.body.files # {}
  /\ \E i \in 1..Len(dbFiles) : dbFiles[i].user_id # resp.headers.token.sub

\* C14: once a watcher thread has polled after a change under a registered
\* path, its channel holds an event of the kind and path of that change, and
\* the events of the changes come in the order of the changes.
C14_ChangeDelivered ==
  \A k \in DOMAIN changes : \A i \in changes[k].polled :
    loops[i].rxAlive =>
      \E e \in DOMAIN loops[i].sent :
        /\ loops[i].sent[e] =
             FileChangeEvent(changes[k].kind, changes[k].path, changes[k].to)
        /\ \A j \in 1..(k - 1) : i \in changes[j].polled =>
             \E d \in 1..e :
               loops[i].sent[d] =
                 FileChangeEvent(changes[j].kind, changes[j].path, changes[j].to)

\* C15: every event a watcher thread has sent names a registered path and has
\* the kind and path of a change that was made.
C15_EventsAreReal ==
  \A i \in DOMAIN loops : \A e \in DOMAIN loops[i].sent :
    /\ loops[i].sent[e].path \in Range(watched_paths)
    /\ \E k \in DOMAIN changes :
         loops[i].sent[e] =
           FileChangeEvent(changes[k].kind, changes[k].path, changes[k].to)

\* C16: every path registered with add_path is among the paths of every
\* running watcher thread.
C16_AddPathReachesLoop ==
  \A i \in DOMAIN loops : Range(watched_paths) \subseteq Range(loops[i].paths)

\* C11: an upload_file call that returns Ok for a file whose server copy had
\* changed since the last sync was preceded by a resolve_conflict call on
\* that file.
C11_ResolveBeforeOverwrite ==
  \A t \in TaskIds :
    (tasks[t].pc = "done" /\ tasks[t].res.ok /\ tasks[t].diverged)
      => (rc.called /\ rc.local = tasks[t].file_path)

\* C13: no two upload_file calls are in flight on the same file at once.
C13_OneInFlightPerFile ==
  \A t1 \in TaskIds : \A t2 \in TaskIds \ {t1} :
    (InFlight(t1) /\ InFlight(t2)) => tasks[t1].file_path # tasks[t2].file_path

NoDuplicates(paths) ==
  \A i \in DOMAIN paths : \A j \in DOMAIN paths : paths[i] = paths[j] => i = j

\* C23: watched_paths never holds a path twice; every step leaves it as it
\* is or appends one path that was not registered, and an add_path call
\* returns Ok and leaves its path registered.
C23_NoDuplicatePaths ==
  /\ []NoDuplicates(watched_paths)
  /\ [](lastAdd.called => (lastAdd.res.ok /\ lastAdd.path \in Range(watched_paths)))
  /\ [][\/ watched_paths' = watched_paths
        \/ /\ lastAdd'.path \notin Range(watched_paths)
           /\ watched_paths' = Append(watched_paths, lastAdd'.path)]_vars

C23_Witness ==
  /\ Len(watched_paths) = Cardinality(WatchPaths)
  /\ lastAdd.called
  /\ lastAdd.path = watched_paths[1]

\* C24: a spawned watcher thread can always take its next turn, whether or
\* not its Receiver was dropped; a thread whose Receiver is alive has sent one
\* event on its own channel per turn, and a thread never sends more.
C24_ThreadNeverStops ==
  \A i \in DOMAIN loops :
    /\ loops[i].ticks < MaxTicks => ENABLED Tick(i)
    /\ loops[i].rxAlive => Len(loops[i].sent) = loops[i].ticks
    /\ Len(loops[i].sent) <= loops[i].ticks
    /\ \A e \in DOMAIN loops[i].sent :
         loops[i].sent[e] = FileChangeEvent("Modified", ".", "")

C24_Witness ==
  /\ Len(loops) = Cardinality(LoopIds)
  /\ ~loops[1].rxAlive
  /\ Len(loops[1].sent) < loops[1].ticks
  /\ loops[2].rxAlive
  /\ loops[2].ticks >= 1

\* a request without a header, with a header that lacks "Bearer ", or with a
\* token that is forged or expired
Unauthenticated(headers) ==
  \/ ~headers.present
  \/ headers.scheme # "Bearer"
  \/ headers.token.sig # "valid"
  \/ headers.token.expired

\* C25: an upload or list request that is not authenticated is answered with
\* AuthenticationFailed, creates no row and returns none; an authenticated
\* upload creates one row for the user of the token, and an authenticated
\* list returns only rows of that user and creates none.
C25_AuthBeforeDatabase ==
  [][(resp'.called /\ resp'.handler \in {"upload_file", "list_files"})
       => IF Unauthenticated(resp'.headers)
          THEN /\ dbFiles' = dbFiles
               /\ resp'.status \in {400, 401}
               /\ resp'.body = [error |-> "AuthenticationFailed"]
          ELSE IF resp'.handler = "upload_file"
          THEN /\ resp'.status = 201
               /\ Len(dbFiles') = Len(dbFiles) + 1
               /\ \A i \in DOMAIN dbFiles : dbFiles'[i] = dbFiles[i]
               /\ dbFiles'[Len(dbFiles')].user_id = resp'.headers.token.sub
               /\ dbFiles'[Len(dbFiles')].id = resp'.body.file_id
          ELSE /\ resp'.status = 200
               /\ dbFiles' = dbFiles
               /\ \A f \in resp'.body.files : f.user_id = resp'.headers.token.sub
    ]_vars

C25_Witness ==
  /\ resp.called /\ resp.handler = "upload_file"
  /\ resp.headers.present /\ resp.headers.scheme = "Bearer"
  /\ resp.headers.token.sig = "valid" /\ resp.headers.token.expired
  /\ resp.status = 400
  /\ Len(dbFiles) >= 1

\* C21: verify_password never returns an error: it returns true for a hash
\* that hash_password gives for the password and false for every other
\* string, malformed ones included.
C21_VerifyNeverErrors ==
  vp.called =>
    /\ vp.res.ok
    /\ vp.res.val = (\E salt \in Salts : Ok(vp.hash) = hash_password(vp.password, salt))

\* C22: retrieve_file returns the bytes of the last store_file of the path
\* that no delete_file followed and fails with StorageError otherwise,
\* file_exists is true exactly for such a path, and delete_file of a path
\* that is not stored fails with StorageError and changes no other path.
C22_StoreRetrieveDelete ==
  ls.called =>
    /\ ls.op = "retrieve_file" =>
         IF stored[ls.path].has
         THEN ls.res.ok /\ ls.res.val = stored[ls.path].data
         ELSE ~ls.res.ok /\ ls.res.err = "StorageError"
    /\ ls.op = "file_exists" => ls.exists = stored[ls.path].has
    /\ (ls.op = "delete_file" /\ ~ls.wasStored) =>
         ~ls.res.ok /\ ls.res.err = "StorageError" /\ ls.othersKept

====
